---- MODULE Spec2Model ----
(***************************************************************************)
(* MainOpaquePass3dNode::run of bevy_core_pipeline                         *)
(* (core_3d/main_opaque_pass_3d_node.rs).                                  *)
(*                                                                         *)
(* The node is a unit struct: it has no fields.  The state is the view     *)
(* data handed to run (the QueryItem), the part of the World that run      *)
(* reads (the ClearColor resource and the PipelineCache), the position     *)
(* inside run, the calls run has made on the tracked render pass, and the  *)
(* value run returned.                                                     *)
(*                                                                         *)
(* Option<T> is a set with at most one element: None is {} and Some(x)     *)
(* is {x}.  The marker components DepthPrepass, NormalPrepass,             *)
(* MotionVectorPrepass and DeferredPrepass carry no data that run reads;   *)
(* Option<&Marker> is the boolean "the component is present".              *)
(***************************************************************************)
EXTENDS Integers, Sequences, FiniteSets

VARIABLES view, world, pc, cmds, result, skipped

vars == <<view, world, pc, cmds, result, skipped>>

(***************************************************************************)
(* Bounds of the model.                                                    *)
(***************************************************************************)
\* longest RenderPhase item list
MaxItems == 2
\* cap of the count of consecutive invocations that skipped the skybox
MaxSkipped == 2

(***************************************************************************)
(* Value domains.                                                          *)
(***************************************************************************)
Colors == {"red", "grey"}
DepthValues == {0, 1}
PipelineIds == {1, 2}
ViewUniformOffsets == {0, 256}

None == {}
Some(x) == {x}
is_some(o) == o # {}
is_none(o) == o = {}
unwrap(o) == CHOOSE x \in o : TRUE

\* ClearColorConfig::{Default, Custom(Color), None}
ClearColorConfig ==
    {[tag |-> "Default"], [tag |-> "None"]}
        \cup {[tag |-> "Custom", color |-> c] : c \in Colors}

\* Camera3dDepthLoadOp::{Clear(f32), Load}
Camera3dDepthLoadOp ==
    {[tag |-> "Load"]} \cup {[tag |-> "Clear", depth |-> d] : d \in DepthValues}

\* a phase item; valid is FALSE when the item's pipeline or resource is invalid
PhaseItem == [valid : BOOLEAN]

RECURSIVE SeqsUpTo(_, _)
SeqsUpTo(S, n) ==
    IF n = 0 THEN {<<>>}
    ELSE LET shorter == SeqsUpTo(S, n - 1)
         IN shorter \cup {Append(s, x) : s \in {t \in shorter : Len(t) = n - 1}, x \in S}

Phases == SeqsUpTo(PhaseItem, MaxItems)

\* LoadOp<V>::{Clear(V), Load}
LoadOpClear(v) == [op |-> "Clear", value |-> v]
LoadOpLoad == [op |-> "Load"]


(***************************************************************************)
(* Collaborators outside the node, at their interface.                     *)
(***************************************************************************)
\* From<Color> for wgpu::Color: the wgpu colour made of the components of c
color_into(c) == [wgpu_color |-> c]

\* From<Camera3dDepthLoadOp> for LoadOp<f32>
depth_into(o) == IF o.tag = "Clear" THEN LoadOpClear(o.depth) ELSE LoadOpLoad

\* PipelineCache::get_render_pipeline: Some(pipeline) once the pipeline of
\* that id is compiled, None before
get_render_pipeline(w, id) ==
    IF id \in w.PipelineCache THEN Some([render_pipeline |-> id]) ELSE None

\* RenderPhase::render: the draw of every item in stored order; the draw of
\* an invalid item records nothing and the items after it are still drawn
RenderPhaseDraws(phase, items) ==
    LET drawn == SelectSeq([i \in 1..Len(items) |-> i], LAMBDA i : items[i].valid)
    IN [k \in 1..Len(drawn) |->
           [cmd |-> "draw_item", phase |-> phase, index |-> drawn[k]]]

\* the call of RenderPhase::render on the open pass, and what it records
render(phase, items) ==
    <<[cmd |-> "render_phase", phase |-> phase, items |-> Len(items)]>>
        \o RenderPhaseDraws(phase, items)

(***************************************************************************)
(* The expressions of run.                                                 *)
(***************************************************************************)
\* load, were the deferred prepass not looked at
load_ignores_deferred(v, w) ==
    CASE v.camera_3d.clear_color.tag = "Default" ->
             LoadOpClear(color_into(w.ClearColor))
      [] v.camera_3d.clear_color.tag = "Custom" ->
             LoadOpClear(color_into(v.camera_3d.clear_color.color))
      [] v.camera_3d.clear_color.tag = "None" -> LoadOpLoad

\* load, were every prepass taken to have written the colour
load_any_prepass(v, w) ==
    IF ~(v.depth_prepass \/ v.normal_prepass \/ v.motion_vector_prepass
            \/ v.deferred_prepass)
    THEN load_ignores_deferred(v, w)
    ELSE LoadOpLoad

\* let load = ... : the load op of the colour attachment
load(v, w) ==
    IF ~v.deferred_prepass
    THEN CASE v.camera_3d.clear_color.tag = "Default" ->
                  LoadOpClear(color_into(w.ClearColor))
           [] v.camera_3d.clear_color.tag = "Custom" ->
                  LoadOpClear(color_into(v.camera_3d.clear_color.color))
           [] v.camera_3d.clear_color.tag = "None" -> LoadOpLoad
    ELSE LoadOpLoad

\* depth_ops.load, were the deferred prepass left out of the condition
depth_load_without_deferred(v) ==
    depth_into(IF v.depth_prepass \/ v.normal_prepass \/ v.motion_vector_prepass
               THEN [tag |-> "Load"]
               ELSE v.camera_3d.depth_load_op)

\* depth_ops.load, were the far plane 0.0 written in place of the camera's value
depth_load_far_plane(v) ==
    IF \/ v.depth_prepass
       \/ v.normal_prepass
       \/ v.motion_vector_prepass
       \/ v.deferred_prepass
       \/ v.camera_3d.depth_load_op.tag = "Load"
    THEN LoadOpLoad
    ELSE LoadOpClear(0)

\* depth_ops.load: the load op of the depth attachment
depth_load(v) ==
    depth_into(IF \/ v.depth_prepass
                  \/ v.normal_prepass
                  \/ v.motion_vector_prepass
                  \/ v.deferred_prepass
               THEN [tag |-> "Load"]
               ELSE v.camera_3d.depth_load_op)

\* the RenderPassDescriptor handed to begin_tracked_render_pass
RenderPassDescriptor(v, w) ==
    [label |-> "main_opaque_pass_3d",
     color_attachments |-> <<[ops |-> [load |-> load(v, w), store |-> "Store"]]>>,
     depth_stencil_attachment |->
         [depth_ops |-> Some([load |-> depth_load(v), store |-> "Store"]),
          stencil_ops |-> None],
     timestamp_writes |-> None,
     occlusion_query_set |-> None]

\* if let Some(viewport) = camera.viewport.as_ref()
viewport_commands(v) ==
    IF is_some(v.camera.viewport)
    THEN <<[cmd |-> "set_camera_viewport", viewport |-> unwrap(v.camera.viewport)]>>
    ELSE <<>>

\* opaque_phase.render(..)
opaque_commands(v) == render("Opaque3d", v.opaque_phase.items)

\* the alpha mask phase, were it rendered without the emptiness test
alpha_mask_commands_always(v) == render("AlphaMask3d", v.alpha_mask_phase.items)

\* if !alpha_mask_phase.items.is_empty() { alpha_mask_phase.render(..) }
alpha_mask_commands(v) ==
    IF v.alpha_mask_phase.items # <<>>
    THEN render("AlphaMask3d", v.alpha_mask_phase.items)
    ELSE <<>>

\* the fullscreen triangle of the skybox
skybox_triangle(v, id) ==
    <<[cmd |-> "set_render_pipeline", pipeline |-> [render_pipeline |-> id]],
      [cmd |-> "set_bind_group", index |-> 0,
       bind_group |-> unwrap(v.skybox_bind_group),
       offsets |-> <<v.view_uniform_offset.offset>>],
      [cmd |-> "draw", vertices |-> <<0, 3>>, instances |-> <<0, 1>>]>>

\* the skybox block, were the pipeline used without asking the cache
skybox_commands_unchecked(v, w) ==
    IF is_some(v.skybox_pipeline) /\ is_some(v.skybox_bind_group)
    THEN skybox_triangle(v, unwrap(v.skybox_pipeline))
    ELSE <<>>

\* the skybox block, were a skipped frame remembered as "no skybox"
skybox_commands_sticky(v, w) ==
    IF /\ is_some(v.skybox_pipeline)
       /\ is_some(v.skybox_bind_group)
       /\ unwrap(v.skybox_pipeline) \in w.PipelineCache
       /\ skipped = 0
    THEN skybox_triangle(v, unwrap(v.skybox_pipeline))
    ELSE <<>>

\* the skybox block: a fullscreen triangle when both halves are present and
\* the pipeline cache has the pipeline
skybox_commands(v, w) ==
    IF is_some(v.skybox_pipeline) /\ is_some(v.skybox_bind_group)
    THEN LET pipeline == get_render_pipeline(w, unwrap(v.skybox_pipeline))
         IN IF is_some(pipeline)
            THEN <<[cmd |-> "set_render_pipeline", pipeline |-> unwrap(pipeline)],
                   [cmd |-> "set_bind_group", index |-> 0,
                    bind_group |-> unwrap(v.skybox_bind_group),
                    offsets |-> <<v.view_uniform_offset.offset>>],
                   [cmd |-> "draw", vertices |-> <<0, 3>>, instances |-> <<0, 1>>]>>
            ELSE <<>>
    ELSE <<>>

\* the result of run, were an invalid item turned into an error
run_result_propagates(v) ==
    IF \/ \E i \in 1..Len(v.opaque_phase.items) : ~v.opaque_phase.items[i].valid
       \/ \E i \in 1..Len(v.alpha_mask_phase.items) : ~v.alpha_mask_phase.items[i].valid
    THEN "Err"
    ELSE "Ok"

\* the value of the tail expression of run
run_result(v) == "Ok"

\* the end of run, were the pass kept open
drop_render_pass_leaked(c) == c

\* render_pass goes out of scope at the end of run: the pass ends
drop_render_pass(c) == Append(c, [cmd |-> "end_render_pass"])

\* the statements of run, were the alpha mask phase rendered before the opaque one
StepAfter_alpha_first(p) ==
    CASE p = "start" -> "viewport"
      [] p = "viewport" -> "alpha_mask"
      [] p = "alpha_mask" -> "opaque"
      [] p = "opaque" -> "skybox"
      [] p = "skybox" -> "return"
      [] p = "return" -> "done"

\* the order of the statements of run
StepAfter(p) ==
    CASE p = "start" -> "viewport"
      [] p = "viewport" -> "opaque"
      [] p = "opaque" -> "alpha_mask"
      [] p = "alpha_mask" -> "skybox"
      [] p = "skybox" -> "return"
      [] p = "return" -> "done"

(***************************************************************************)
(* The view data and resources run is invoked with.                        *)
(***************************************************************************)
ViewData(cc, dlo, dp, np, mvp, dfp, vp, op, am, sp, sbg, off) ==
    [camera |-> [viewport |-> vp],
     opaque_phase |-> [items |-> op],
     alpha_mask_phase |-> [items |-> am],
     camera_3d |-> [clear_color |-> cc, depth_load_op |-> dlo],
     depth_prepass |-> dp,
     normal_prepass |-> np,
     motion_vector_prepass |-> mvp,
     deferred_prepass |-> dfp,
     skybox_pipeline |-> sp,
     skybox_bind_group |-> sbg,
     view_uniform_offset |-> [offset |-> off]]

\* every attachment configuration, with one opaque item and a whole skybox
AttachmentInputs ==
    {[view |-> ViewData(cc, dlo, dp, np, mvp, dfp, vp, <<[valid |-> TRUE]>>, am,
                        Some(1), Some("skybox_bind_group"), off),
      ClearColor |-> c] :
        cc \in ClearColorConfig, dlo \in Camera3dDepthLoadOp,
        dp \in BOOLEAN, np \in BOOLEAN, mvp \in BOOLEAN, dfp \in BOOLEAN,
        vp \in {None, Some("viewport")}, am \in {<<>>, <<[valid |-> TRUE]>>},
        off \in ViewUniformOffsets, c \in Colors}

\* every viewport, pair of phases and skybox configuration, with the default
\* attachment configuration, after a deferred prepass or after no prepass
PhaseInputs ==
    {[view |-> ViewData([tag |-> "Default"], [tag |-> "Clear", depth |-> 0],
                        FALSE, FALSE, FALSE, dfp, vp, op, am, sp, sbg, off),
      ClearColor |-> "grey"] :
        dfp \in BOOLEAN,
        vp \in {None, Some("viewport")}, op \in Phases, am \in Phases,
        sp \in {None} \cup {Some(id) : id \in PipelineIds},
        sbg \in {None, Some("skybox_bind_group")},
        off \in ViewUniformOffsets}

Inputs == AttachmentInputs \cup PhaseInputs

\* the skybox block of the invocation found both halves and no pipeline
SkyboxSkipped(v, w) ==
    /\ is_some(v.skybox_pipeline)
    /\ is_some(v.skybox_bind_group)
    /\ is_none(get_render_pipeline(w, unwrap(v.skybox_pipeline)))

(***************************************************************************)
(* State machine.                                                          *)
(***************************************************************************)
Init ==
    /\ \E in \in Inputs :
          /\ view = in.view
          /\ world = [ClearColor |-> in.ClearColor, PipelineCache |-> {}]
    /\ pc = "start"
    /\ cmds = <<>>
    /\ result = "Pending"
    /\ skipped = 0

\* between two invocations the pipeline cache finishes or invalidates a pipeline
process_queue ==
    /\ pc = "start"
    /\ \E id \in PipelineIds :
          world' = [world EXCEPT !.PipelineCache =
                        (world.PipelineCache \ {id}) \cup ({id} \ world.PipelineCache)]
    /\ UNCHANGED <<view, pc, cmds, result, skipped>>

\* render_context.begin_tracked_render_pass(RenderPassDescriptor { .. })
begin_tracked_render_pass ==
    /\ pc = "start"
    /\ cmds' = <<[cmd |-> "begin_render_pass", desc |-> RenderPassDescriptor(view, world)]>>
    /\ pc' = StepAfter(pc)
    /\ UNCHANGED <<view, world, result, skipped>>

set_camera_viewport ==
    /\ pc = "viewport"
    /\ cmds' = cmds \o viewport_commands(view)
    /\ pc' = StepAfter(pc)
    /\ UNCHANGED <<view, world, result, skipped>>

render_opaque_phase ==
    /\ pc = "opaque"
    /\ cmds' = cmds \o opaque_commands(view)
    /\ pc' = StepAfter(pc)
    /\ UNCHANGED <<view, world, result, skipped>>

render_alpha_mask_phase ==
    /\ pc = "alpha_mask"
    /\ cmds' = cmds \o alpha_mask_commands(view)
    /\ pc' = StepAfter(pc)
    /\ UNCHANGED <<view, world, result, skipped>>

draw_skybox ==
    /\ pc = "skybox"
    /\ cmds' = cmds \o skybox_commands(view, world)
    /\ pc' = StepAfter(pc)
    /\ UNCHANGED <<view, world, result, skipped>>

\* Ok(()) and the end of the scope of render_pass
return ==
    /\ pc = "return"
    /\ cmds' = drop_render_pass(cmds)
    /\ result' = run_result(view)
    /\ pc' = StepAfter(pc)
    /\ UNCHANGED <<view, world, skipped>>

\* the render graph runs the node again in the next frame, for the same view
next_frame ==
    /\ pc = "done"
    /\ SkyboxSkipped(view, world) => skipped < MaxSkipped
    /\ pc' = "start"
    /\ cmds' = <<>>
    /\ result' = "Pending"
    /\ skipped' = IF SkyboxSkipped(view, world) THEN skipped + 1 ELSE 0
    /\ UNCHANGED <<view, world>>

Next ==
    \/ process_queue
    \/ begin_tracked_render_pass
    \/ set_camera_viewport
    \/ render_opaque_phase
    \/ render_alpha_mask_phase
    \/ draw_skybox
    \/ return
    \/ next_frame

Spec == Init /\ [][Next]_vars

TypeOK ==
    /\ pc \in {"start", "viewport", "opaque", "alpha_mask", "skybox", "return", "done"}
    /\ result \in {"Pending", "Ok", "Err"}
    /\ skipped \in 0..MaxSkipped
    /\ world.PipelineCache \subseteq PipelineIds

(***************************************************************************)
(* What the recorded commands say.                                         *)
(***************************************************************************)
Begun == cmds # <<>>
ColorLoadOp == cmds[1].desc.color_attachments[1].ops.load
DepthLoadOp == unwrap(cmds[1].desc.depth_stencil_attachment.depth_ops).load

AnyPrepass ==
    \/ view.depth_prepass
    \/ view.normal_prepass
    \/ view.motion_vector_prepass
    \/ view.deferred_prepass

Count(P(_)) == Cardinality({i \in 1..Len(cmds) : P(cmds[i])})

IsBegin(c) == c.cmd = "begin_render_pass"
IsEnd(c) == c.cmd = "end_render_pass"
IsDraw(c) == c.cmd = "draw"
IsOpaqueRender(c) == c.cmd = "render_phase" /\ c.phase = "Opaque3d"
IsAlphaRender(c) == c.cmd = "render_phase" /\ c.phase = "AlphaMask3d"
IsOpaqueDraw(c) == c.cmd = "draw_item" /\ c.phase = "Opaque3d"
IsAlphaDraw(c) == c.cmd = "draw_item" /\ c.phase = "AlphaMask3d"
IsAlpha(c) == c.cmd \in {"render_phase", "draw_item"} /\ c.phase = "AlphaMask3d"

ValidItems(items) == Cardinality({i \in 1..Len(items) : items[i].valid})

ItemFailed ==
    \/ \E i \in 1..Len(view.opaque_phase.items) : ~view.opaque_phase.items[i].valid
    \/ \E i \in 1..Len(view.alpha_mask_phase.items) : ~view.alpha_mask_phase.items[i].valid

SkyboxBoth == view.skybox_pipeline # {} /\ view.skybox_bind_group # {}
SkyboxReady == SkyboxBoth /\ (\E id \in view.skybox_pipeline : id \in world.PipelineCache)

\* the place of a command in the order the pass must have
Rank(c) ==
    CASE c.cmd = "begin_render_pass" -> 0
      [] c.cmd = "set_camera_viewport" -> 1
      [] c.cmd \in {"render_phase", "draw_item"} /\ c.phase = "Opaque3d" -> 2
      [] c.cmd \in {"render_phase", "draw_item"} /\ c.phase = "AlphaMask3d" -> 3
      [] c.cmd \in {"set_render_pipeline", "set_bind_group", "draw"} -> 4
      [] c.cmd = "end_render_pass" -> 5

(***************************************************************************)
(* Properties.                                                             *)
(***************************************************************************)

\* C1: whenever one of the four prepass components is present, the pass is
\* opened with depth load op Load, whatever the camera's depth_load_op is.
C1_DepthLoadedAfterPrepass ==
    (Begun /\ AnyPrepass) => (IsBegin(cmds[1]) /\ DepthLoadOp = LoadOpLoad)

C1_Witness ==
    /\ Begun
    /\ view.deferred_prepass /\ ~view.depth_prepass
    /\ view.camera_3d.depth_load_op.tag = "Clear"
    /\ DepthLoadOp = LoadOpLoad

\* C2: whenever the deferred prepass is present, the pass is opened with colour
\* load op Load, whatever clear_color and the other three prepass flags are.
C2_ColorLoadedAfterDeferred ==
    (Begun /\ view.deferred_prepass) => (IsBegin(cmds[1]) /\ ColorLoadOp = LoadOpLoad)

C2_Witness ==
    /\ Begun
    /\ view.deferred_prepass
    /\ view.camera_3d.clear_color.tag = "Custom"
    /\ ColorLoadOp = LoadOpLoad

\* C3: without the deferred prepass the colour load op follows clear_color
\* alone: Default clears to the ClearColor resource, Custom(c) clears to c,
\* None loads; the depth, normal and motion vector prepasses change nothing.
C3_ColorLoadFollowsConfig ==
    (Begun /\ ~view.deferred_prepass) =>
        /\ IsBegin(cmds[1])
        /\ view.camera_3d.clear_color.tag = "Default" =>
               ColorLoadOp = [op |-> "Clear", value |-> [wgpu_color |-> world.ClearColor]]
        /\ view.camera_3d.clear_color.tag = "Custom" =>
               ColorLoadOp = [op |-> "Clear",
                              value |-> [wgpu_color |-> view.camera_3d.clear_color.color]]
        /\ view.camera_3d.clear_color.tag = "None" => ColorLoadOp = [op |-> "Load"]

C3_Witness ==
    /\ Begun
    /\ ~view.deferred_prepass
    /\ view.depth_prepass /\ view.normal_prepass /\ view.motion_vector_prepass
    /\ view.camera_3d.clear_color.tag = "Custom"
    /\ view.camera_3d.clear_color.color # world.ClearColor
    /\ ColorLoadOp = [op |-> "Clear",
                      value |-> [wgpu_color |-> view.camera_3d.clear_color.color]]

\* C4: without any prepass the depth load op is the camera's depth_load_op:
\* Clear(v) gives Clear of the same v, Load gives Load.
C4_DepthLoadIsCameras ==
    (Begun /\ ~AnyPrepass) =>
        /\ IsBegin(cmds[1])
        /\ view.camera_3d.depth_load_op.tag = "Clear" =>
               DepthLoadOp = [op |-> "Clear", value |-> view.camera_3d.depth_load_op.depth]
        /\ view.camera_3d.depth_load_op.tag = "Load" => DepthLoadOp = [op |-> "Load"]

C4_Witness ==
    /\ Begun
    /\ ~AnyPrepass
    /\ view.camera_3d.depth_load_op = [tag |-> "Clear", depth |-> 1]
    /\ DepthLoadOp = [op |-> "Clear", value |-> 1]

\* C5: the commands of one invocation are in the order: the opening of the
\* pass, the viewport, the opaque phase, the alpha mask phase, the skybox.
C5_CommandOrder ==
    Begun =>
        /\ IsBegin(cmds[1])
        /\ \A i \in 2..Len(cmds) : Rank(cmds[i]) >= 1
        /\ \A i, j \in 1..Len(cmds) : i < j => Rank(cmds[i]) <= Rank(cmds[j])

C5_Witness ==
    /\ pc = "done"
    /\ Count(LAMBDA c : c.cmd = "set_camera_viewport") = 1
    /\ Count(IsOpaqueDraw) >= 1
    /\ Count(IsAlphaDraw) >= 1
    /\ Count(IsDraw) = 1

\* C6: the skybox is drawn, once, with 3 vertices and 1 instance, exactly when
\* the pipeline id and the bind group are present and the cache has the
\* pipeline of that id; otherwise no skybox command is recorded.
C6_SkyboxIff ==
    /\ \A i \in 1..Len(cmds) :
          IsDraw(cmds[i]) =>
              /\ cmds[i].vertices = <<0, 3>> /\ cmds[i].instances = <<0, 1>>
              /\ i > 2
              /\ cmds[i - 2] = [cmd |-> "set_render_pipeline",
                                pipeline |-> [render_pipeline |-> unwrap(view.skybox_pipeline)]]
              /\ cmds[i - 1].cmd = "set_bind_group"
    /\ Count(IsDraw) <= 1
    /\ pc \in {"return", "done"} =>
          Count(LAMBDA c : Rank(c) = 4) = (IF SkyboxReady THEN 3 ELSE 0)

C6_Witness ==
    /\ pc = "done"
    /\ SkyboxReady
    /\ world.PipelineCache # PipelineIds
    /\ Count(IsDraw) = 1

\* C7: the opaque phase is rendered once in every invocation, also with no
\* item; the alpha mask phase is rendered once when it has an item and not at
\* all when it is empty, and the skybox step runs all the same.
C7_PhasesRendered ==
    /\ Count(IsOpaqueRender) <= 1
    /\ Count(IsAlphaRender) <= 1
    /\ pc \in {"alpha_mask", "skybox", "return", "done"} => Count(IsOpaqueRender) = 1
    /\ pc \in {"skybox", "return", "done"} =>
          /\ Count(IsAlphaRender) = (IF Len(view.alpha_mask_phase.items) > 0 THEN 1 ELSE 0)
          /\ Len(view.alpha_mask_phase.items) = 0 => Count(IsAlpha) = 0
    /\ (pc = "done" /\ Len(view.alpha_mask_phase.items) = 0) =>
          Count(IsDraw) = (IF SkyboxReady THEN 1 ELSE 0)

C7_Witness ==
    /\ pc = "done"
    /\ view.opaque_phase.items = <<>>
    /\ view.alpha_mask_phase.items = <<>>
    /\ Count(IsOpaqueRender) = 1
    /\ Count(IsDraw) = 1

\* C8 as stated: when an item of the opaque or alpha mask phase is invalid,
\* run returns an error.
C8_FailurePropagated == (pc = "done" /\ ItemFailed) => result = "Err"

\* C8, amended: when an item of the opaque or alpha mask phase is invalid, run
\* still returns Ok(()): the node has no error path.
C8_FailureNotPropagated == (pc = "done" /\ ItemFailed) => result = "Ok"

C8_Witness ==
    /\ pc = "done"
    /\ \E i \in 1..Len(view.opaque_phase.items) : ~view.opaque_phase.items[i].valid
    /\ \E i \in 1..Len(view.alpha_mask_phase.items) : ~view.alpha_mask_phase.items[i].valid
    /\ result = "Ok"

\* C9: an invocation opens one render pass and ends it before it returns;
\* every other command lies between the two, and once run has returned the
\* pass, which borrows the attachments, is over.
C9_OnePassPerRun ==
    /\ pc = "start" => cmds = <<>>
    /\ pc # "start" =>
          /\ IsBegin(cmds[1])
          /\ Count(IsBegin) = 1
    /\ pc \notin {"start", "done"} => (Count(IsEnd) = 0 /\ result = "Pending")
    /\ pc = "done" =>
          /\ result # "Pending"
          /\ Len(cmds) >= 2
          /\ IsEnd(cmds[Len(cmds)])
          /\ Count(IsEnd) = 1

C9_Witness ==
    /\ pc = "done"
    /\ Len(cmds) >= 9
    /\ IsEnd(cmds[Len(cmds)])

\* C10: with both skybox resources present, an invocation that finds the
\* pipeline not ready returns Ok with no skybox command and both phases
\* rendered as usual, and an invocation that finds it ready draws the skybox,
\* however many invocations before it skipped the skybox.
C10_SkyboxRetried ==
    (pc = "done" /\ SkyboxBoth) =>
        /\ result = "Ok"
        /\ Count(IsOpaqueRender) = 1
        /\ Count(IsOpaqueDraw) = ValidItems(view.opaque_phase.items)
        /\ Count(IsAlphaDraw) = ValidItems(view.alpha_mask_phase.items)
        /\ ~SkyboxReady => Count(LAMBDA c : Rank(c) = 4) = 0
        /\ SkyboxReady =>
              /\ Len(cmds) >= 4
              /\ cmds[Len(cmds) - 1] =
                     [cmd |-> "draw", vertices |-> <<0, 3>>, instances |-> <<0, 1>>]
              /\ cmds[Len(cmds) - 2] =
                     [cmd |-> "set_bind_group", index |-> 0,
                      bind_group |-> unwrap(view.skybox_bind_group),
                      offsets |-> <<view.view_uniform_offset.offset>>]
              /\ cmds[Len(cmds) - 3].cmd = "set_render_pipeline"

C10_Witness ==
    /\ pc = "done"
    /\ skipped = MaxSkipped
    /\ SkyboxReady
    /\ ValidItems(view.alpha_mask_phase.items) >= 1
    /\ Count(IsDraw) = 1

====
